---- MODULE Spec2Model ----
(***************************************************************************)
(* RandomOverSampler (imblearn/over_sampling/_random_over_sampler.py).     *)
(*                                                                         *)
(* The state is one sampler object (its parameters and its fitted          *)
(* attributes shrinkage_ and sample_indices_), the dataset it is called    *)
(* on, and numpy's global generator.  _fit_resample(X, y) is the operation *)
(* that writes the fitted attributes; smoothed_bootstrap can be flipped    *)
(* between two calls.  The other parameters and the dataset are chosen     *)
(* when the sampler is built and stay.  sampling_strategy_ is the target   *)
(* mapping _fit_resample finds on the object: the method reads it as it    *)
(* is, and nothing in this file compares its classes with the labels.      *)
(*                                                                         *)
(* Numbers.  Feature values are fixed-point hundredths (100 is 1.0), the   *)
(* bandwidth constant is kept in tenths, and the noise scale is rounded    *)
(* down to a hundredth.  Numeric matrices are float64, so the cast of the  *)
(* sparse branch to X.dtype keeps the values.  Row indices are 0-based as  *)
(* in the source.                                                          *)
(*                                                                         *)
(* Libraries.  The Mersenne Twister of numpy.random is replaced by a       *)
(* 4-state generator, a deterministic function of its state as the         *)
(* original is: choice takes one raw value per index, randn one per cell.  *)
(* RandomState.choice follows numpy >= 1.16: an empty population raises    *)
(* only when at least one sample is asked for.  check_array rejects an     *)
(* object matrix (kind "object": cells that are not numbers).              *)
(***************************************************************************)
EXTENDS Integers, Sequences, FiniteSets, TLC

\* Bounds of the explored inputs: the rows of X, the largest count of the
\* target mapping.
NumRows == 2
MaxCount == 2

Classes == {0, 1}
Kinds == {"dense", "sparse", "object"}
ShrinkValues == {0, 1}
Seeds == {0, 1}
RngStates == 0..3

VARIABLES
    X,                  \* feature matrix passed to _fit_resample: [kind, rows]
    y,                  \* label vector passed to _fit_resample
    sampling_strategy_, \* ordered class -> count mapping: <<[klass, num], ...>>
    shrinkage,          \* parameter: a real number or a dict
    smoothed_bootstrap, \* parameter
    random_state,       \* parameter: None or an int seed
    shrinkage_,         \* fitted attribute
    sample_indices_,    \* fitted attribute
    np_random,          \* state of numpy's global generator
    call                \* the last _fit_resample call: the flag, the generator state and
                        \* shrinkage_ it started from, and its outcome

vars == <<X, y, sampling_strategy_, shrinkage, smoothed_bootstrap, random_state,
          shrinkage_, sample_indices_, np_random, call>>

----------------------------------------------------------------------------
\* Input domains

\* n distinct rows of two features; the second feature is constant
Ramp(n) == [i \in 1..n |-> <<100 * (i - 1), 100>>]

Matrices == {[kind |-> k, rows |-> Ramp(NumRows)] : k \in Kinds}

\* any ordered mapping over the classes, a class that labels no row included
SamplingStrategies ==
    {m \in UNION {[1..n -> [klass : Classes, num : 0..MaxCount]] :
                     n \in 0..Cardinality(Classes)} :
        \A i, j \in DOMAIN m : i # j => m[i].klass # m[j].klass}

\* a real number, or a dict over any subset of the classes
ShrinkageParams ==
    {[real |-> TRUE, value |-> v, map |-> <<>>] : v \in ShrinkValues}
    \cup
    {[real |-> FALSE, value |-> 0, map |-> m] :
        m \in UNION {[S -> ShrinkValues] : S \in SUBSET Classes}}

RandomStateParams ==
    {[seeded |-> FALSE, seed |-> 0]} \cup {[seeded |-> TRUE, seed |-> s] : s \in Seeds}

----------------------------------------------------------------------------
\* Values of the fitted attributes and of a call's outcome

Unset == [state |-> "unset", map |-> <<>>]
None == [state |-> "None", map |-> <<>>]
Dict(m) == [state |-> "dict", map |-> m]

NoIndices == [set |-> FALSE, idx |-> <<>>]
Indices(s) == [set |-> TRUE, idx |-> s]

NoMatrix == [kind |-> "none", rows |-> <<>>]

NoCall ==
    [status |-> "none", smoothed |-> FALSE, rng0 |-> 0, before |-> "unset",
     missing |-> {}, X_resampled |-> NoMatrix, y_resampled |-> <<>>, draws |-> 0]

----------------------------------------------------------------------------
\* The random generator (numpy.random.RandomState)

RngNext(s) == <<3, 2, 0, 1>>[s + 1]

RECURSIVE RngAdvance(_, _)
RngAdvance(s, n) == IF n = 0 THEN s ELSE RngAdvance(RngNext(s), n - 1)

\* the k-th raw value a generator in state s hands out
RngRaw(s, k) == RngAdvance(s, k - 1)

\* check_random_state ignoring the seed: every call shares the global generator
check_random_state_global(seed, global_state) ==
    [global |-> TRUE, state |-> global_state]

\* check_random_state(self.random_state): None is numpy's global generator,
\* an int seeds a fresh generator
check_random_state(seed, global_state) ==
    IF seed.seeded
    THEN [global |-> FALSE, state |-> seed.seed % 4]
    ELSE [global |-> TRUE, state |-> global_state]

\* RandomState.choice(a, size, replace=True) raises on an empty population
\* unless no sample is taken
choice_raises(a, size) == Len(a) = 0 /\ size # 0

\* one draw too few
choice_one_less(a, size, s) ==
    [i \in 1..(size - 1) |-> a[(RngRaw(s, i) % Len(a)) + 1]]

\* RandomState.choice(a, size, replace=True): size uniform draws from a
choice(a, size, s) ==
    [i \in 1..size |-> a[(RngRaw(s, i) % Len(a)) + 1]]

\* RandomState.randn(d0, d1): standard normal values, row by row
randn(d0, d1, s) ==
    [i \in 1..d0 |-> [j \in 1..d1 |-> (RngRaw(s, (i - 1) * d1 + j) % 3) - 1]]

----------------------------------------------------------------------------
\* Array helpers

\* 1-based positions instead of 0-based row indices
arange_from_one(n) == [i \in 1..n |-> i]

\* range(X.shape[0])
arange(n) == [i \in 1..n |-> i - 1]

\* indices of the rows whose label differs from c
flatnonzero_other(v, c) ==
    SelectSeq([i \in 1..Len(v) |-> i - 1], LAMBDA k : v[k + 1] # c)

\* np.flatnonzero(y == class_sample)
flatnonzero(v, c) ==
    SelectSeq([i \in 1..Len(v) |-> i - 1], LAMBDA k : v[k + 1] = c)

\* indexing that reads the first row whatever the index
safe_indexing_first(a, indices) ==
    [i \in 1..Len(indices) |-> a[1]]

\* _safe_indexing(a, indices), a[indices, :]
safe_indexing(a, indices) ==
    [i \in 1..Len(indices) |-> a[indices[i] + 1]]

\* the element of a one-element set: {e : v \in {d}} evaluates d once
Only(S) == CHOOSE x \in S : TRUE

RECURSIVE SumSeq(_)
SumSeq(s) == IF s = <<>> THEN 0 ELSE Head(s) + SumSeq(Tail(s))

\* floor of the square root
IsqrtOf[v \in Nat] ==
    IF v < 2 THEN v
    ELSE LET s == 2 * IsqrtOf[v \div 4]
         IN  IF (s + 1) * (s + 1) <= v THEN s + 1 ELSE s

Isqrt(v) == IsqrtOf[v]

Column(rows, j) == [i \in 1..Len(rows) |-> rows[i][j]]

\* Len(col)^2 times the population variance of col
ScaledVariance(col) ==
    Len(col) * SumSeq([i \in 1..Len(col) |-> col[i] * col[i]]) - SumSeq(col) * SumSeq(col)

\* np.std(rows, axis=0); NaN on no rows, which no generated row ever reads
std_axis0(rows, n_features) ==
    [j \in 1..n_features |->
        IF Len(rows) = 0 THEN 0
        ELSE Isqrt(ScaledVariance(Column(rows, j))) \div Len(rows)]

\* np.sqrt of the variances of mean_variance_axis(rows, axis=0)
sqrt_variance_axis0(rows, n_features) ==
    [j \in 1..n_features |->
        IF Len(rows) = 0 THEN 0
        ELSE Isqrt(ScaledVariance(Column(rows, j)) \div (Len(rows) * Len(rows)))]

\* (4 / ((n_features + 2) * n_samples)) ** (1 / (n_features + 4)), in tenths
smoothing_constant(n_samples, n_features) ==
    CHOOSE k \in 0..11 :
        /\ k ^ (n_features + 4) * ((n_features + 2) * n_samples)
              <= 4 * 10 ^ (n_features + 4)
        /\ 4 * 10 ^ (n_features + 4)
              < (k + 1) ^ (n_features + 4) * ((n_features + 2) * n_samples)

\* the noise scale without the shrinkage factor
smoothing_diagonal_unshrunk(factor, h, scale) ==
    [j \in 1..Len(scale) |-> (h * scale[j]) \div 10]

\* shrinkage_[class_sample] * smoothing_constant * X_class_scale
smoothing_diagonal(factor, h, scale) ==
    [j \in 1..Len(scale) |-> (factor * h * scale[j]) \div 10]

\* np.diagflat
diagflat(d) ==
    [k \in 1..Len(d) |-> [j \in 1..Len(d) |-> IF k = j THEN d[j] ELSE 0]]

\* row vector times matrix
dot(row, m) ==
    [j \in 1..Len(row) |-> SumSeq([k \in 1..Len(row) |-> row[k] * m[k][j]])]

----------------------------------------------------------------------------
\* RandomOverSampler._fit_resample

Keys(strategy) == {strategy[i].klass : i \in DOMAIN strategy}

\* the symmetric difference instead of the difference
missing_shrinkage_keys_symmetric(strategy, shr) ==
    (Keys(strategy) \ DOMAIN shr.map) \cup (DOMAIN shr.map \ Keys(strategy))

\* self.sampling_strategy_.keys() - self.shrinkage.keys()
missing_shrinkage_keys(strategy, shr) ==
    Keys(strategy) \ DOMAIN shr.map

\* check_array(X, accept_sparse=["csr", "csc"], dtype="numeric") raises
check_array_raises(Xin) == Xin.kind = "object"

\* shrinkage_ is stored before the completeness check
resolve_shrinkage_store_first(shr, smoothed, strategy, Xin, old_shrinkage_) ==
    IF smoothed
    THEN IF shr.real
         THEN [status |-> IF check_array_raises(Xin) THEN "NonNumeric" ELSE "ok",
               missing |-> {},
               shrinkage_ |-> Dict([c \in Keys(strategy) |-> shr.value])]
         ELSE IF missing_shrinkage_keys(strategy, shr) # {}
              THEN [status |-> "IncompleteShrinkage",
                    missing |-> missing_shrinkage_keys(strategy, shr),
                    shrinkage_ |-> Dict(shr.map)]
              ELSE [status |-> IF check_array_raises(Xin) THEN "NonNumeric" ELSE "ok",
                    missing |-> {},
                    shrinkage_ |-> Dict(shr.map)]
    ELSE [status |-> "ok", missing |-> {}, shrinkage_ |-> None]

\* the completeness check runs whatever smoothed_bootstrap is
resolve_shrinkage_always(shr, smoothed, strategy, Xin, old_shrinkage_) ==
    IF ~shr.real /\ missing_shrinkage_keys(strategy, shr) # {}
    THEN [status |-> "IncompleteShrinkage",
          missing |-> missing_shrinkage_keys(strategy, shr),
          shrinkage_ |-> old_shrinkage_]
    ELSE IF smoothed
         THEN [status |-> IF check_array_raises(Xin) THEN "NonNumeric" ELSE "ok",
               missing |-> {},
               shrinkage_ |-> IF shr.real
                              THEN Dict([c \in Keys(strategy) |-> shr.value])
                              ELSE Dict(shr.map)]
         ELSE [status |-> "ok", missing |-> {}, shrinkage_ |-> None]

\* the first part of _fit_resample: the resolved shrinkage and the two
\* configuration errors
resolve_shrinkage(shr, smoothed, strategy, Xin, old_shrinkage_) ==
    IF smoothed
    THEN IF shr.real
         THEN [status |-> IF check_array_raises(Xin) THEN "NonNumeric" ELSE "ok",
               missing |-> {},
               shrinkage_ |-> Dict([c \in Keys(strategy) |-> shr.value])]
         ELSE IF missing_shrinkage_keys(strategy, shr) # {}
              THEN [status |-> "IncompleteShrinkage",
                    missing |-> missing_shrinkage_keys(strategy, shr),
                    shrinkage_ |-> old_shrinkage_]
              ELSE [status |-> IF check_array_raises(Xin) THEN "NonNumeric" ELSE "ok",
                    missing |-> {},
                    shrinkage_ |-> Dict(shr.map)]
    ELSE [status |-> "ok", missing |-> {}, shrinkage_ |-> None]

\* the smoothed bootstrap of one class: the drawn rows plus scaled noise
smoothed_rows(Xin, target_class_indices, bootstrap_indices, factor, s) ==
    LET n_samples == Len(Xin.rows)
        n_features == Len(Xin.rows[1])
        h == smoothing_constant(n_samples, n_features)
        X_class == safe_indexing(Xin.rows, target_class_indices)
        X_class_scale ==
            IF Xin.kind = "sparse"
            THEN sqrt_variance_axis0(X_class, n_features)
            ELSE std_axis0(X_class, n_features)
        smoothing_matrix == diagflat(smoothing_diagonal(factor, h, X_class_scale))
        noise == randn(Len(bootstrap_indices), n_features, s)
        drawn == safe_indexing(Xin.rows, bootstrap_indices)
    IN  Only({[i \in 1..Len(bootstrap_indices) |->
                  [j \in 1..n_features |-> dot(nz[i], m)[j] + drawn[i][j]]]
              : m \in {smoothing_matrix}, nz \in {noise}})

\* one pass of the loop body, for the entry (class_sample, num_samples)
resample_class(class_sample, num_samples, Xin, yin, smoothed, shr_map, acc) ==
    Only({
        IF choice_raises(target_class_indices, num_samples)
        THEN [acc EXCEPT !.status = "EmptyPool"]
        ELSE Only({
            LET rng1 == RngAdvance(acc.rng, num_samples)
                X_new ==
                    IF smoothed
                    THEN smoothed_rows(Xin, target_class_indices, bootstrap_indices,
                                       shr_map[class_sample], rng1)
                    ELSE safe_indexing(Xin.rows, bootstrap_indices)
                n_normal == IF smoothed THEN num_samples * Len(Xin.rows[1]) ELSE 0
            IN  [status |-> "ok",
                 X_resampled |-> acc.X_resampled \o X_new,
                 y_resampled |-> acc.y_resampled \o safe_indexing(yin, bootstrap_indices),
                 sample_indices |-> acc.sample_indices \o bootstrap_indices,
                 rng |-> RngAdvance(rng1, n_normal),
                 draws |-> acc.draws + num_samples + n_normal]
            : bootstrap_indices \in {choice(target_class_indices, num_samples, acc.rng)}})
        : target_class_indices \in {flatnonzero(yin, class_sample)}})

\* the loop over sampling_strategy_.items(), from entry i on
RECURSIVE resample_classes(_, _, _, _, _, _, _)
resample_classes(i, Xin, yin, strategy, smoothed, shr_map, acc) ==
    IF i > Len(strategy) \/ acc.status # "ok" THEN acc
    ELSE Only({resample_classes(i + 1, Xin, yin, strategy, smoothed, shr_map, next)
               : next \in {resample_class(strategy[i].klass, strategy[i].num,
                                          Xin, yin, smoothed, shr_map, acc)}})

\* _fit_resample(X, y) on a sampler with the given parameters and attributes;
\* gen is the generator check_random_state returned
fit_resample(shr, smoothed, strategy, Xin, yin, old_shrinkage_, old_sample_indices_, gen) ==
    LET cfg == resolve_shrinkage(shr, smoothed, strategy, Xin, old_shrinkage_)
    IN  IF cfg.status # "ok"
        THEN [status |-> cfg.status, missing |-> cfg.missing,
              shrinkage_ |-> cfg.shrinkage_, sample_indices_ |-> old_sample_indices_,
              X_resampled |-> NoMatrix, y_resampled |-> <<>>,
              rng |-> gen.state, draws |-> 0]
        ELSE
          LET loop == resample_classes(1, Xin, yin, strategy, smoothed, cfg.shrinkage_.map,
                          [status |-> "ok",
                           X_resampled |-> Xin.rows,
                           y_resampled |-> yin,
                           sample_indices |-> arange(Len(Xin.rows)),
                           rng |-> gen.state,
                           draws |-> 0])
          IN  IF loop.status # "ok"
              THEN [status |-> loop.status, missing |-> {},
                    shrinkage_ |-> cfg.shrinkage_, sample_indices_ |-> old_sample_indices_,
                    X_resampled |-> NoMatrix, y_resampled |-> <<>>,
                    rng |-> loop.rng, draws |-> loop.draws]
              ELSE [status |-> "ok", missing |-> {},
                    shrinkage_ |-> cfg.shrinkage_,
                    sample_indices_ |-> Indices(loop.sample_indices),
                    X_resampled |-> [kind |-> Xin.kind, rows |-> loop.X_resampled],
                    y_resampled |-> loop.y_resampled,
                    rng |-> loop.rng, draws |-> loop.draws]

----------------------------------------------------------------------------
\* The state machine

Init ==
    /\ X \in Matrices
    /\ y \in [1..Len(X.rows) -> Classes]
    /\ sampling_strategy_ \in SamplingStrategies
    /\ shrinkage \in ShrinkageParams
    /\ smoothed_bootstrap \in BOOLEAN
    /\ random_state \in RandomStateParams
    /\ shrinkage_ = Unset
    /\ sample_indices_ = NoIndices
    /\ np_random = 0
    /\ call = NoCall

\* sampler._fit_resample(X, y)
FitResample ==
    \E gen \in {check_random_state(random_state, np_random)} :
      \E r \in {fit_resample(shrinkage, smoothed_bootstrap, sampling_strategy_, X, y,
                             shrinkage_, sample_indices_, gen)} :
        /\ shrinkage_' = r.shrinkage_
        /\ sample_indices_' = r.sample_indices_
        /\ np_random' = IF gen.global THEN r.rng ELSE np_random
        /\ call' = [status |-> r.status, smoothed |-> smoothed_bootstrap,
                    rng0 |-> gen.state, before |-> shrinkage_.state,
                    missing |-> r.missing,
                    X_resampled |-> r.X_resampled, y_resampled |-> r.y_resampled,
                    draws |-> r.draws]
        /\ UNCHANGED <<X, y, sampling_strategy_, shrinkage, smoothed_bootstrap, random_state>>

\* sampler.set_params(smoothed_bootstrap=b)
SetSmoothedBootstrap ==
    /\ smoothed_bootstrap' = ~smoothed_bootstrap
    /\ UNCHANGED <<X, y, sampling_strategy_, shrinkage, random_state,
                   shrinkage_, sample_indices_, np_random, call>>

Next == FitResample \/ SetSmoothedBootstrap

Spec == Init /\ [][Next]_vars

----------------------------------------------------------------------------
\* Vocabulary of the properties

Called == call.status # "none"
Succeeded == call.status = "ok"
ConfigErrors == {"IncompleteShrinkage", "NonNumeric"}

N == Len(X.rows)
Total == SumSeq([i \in 1..Len(sampling_strategy_) |-> sampling_strategy_[i].num])

\* rows generated for the entries before entry i
Offset(i) == SumSeq([j \in 1..(i - 1) |-> sampling_strategy_[j].num])

\* output positions (1-based) of the block of entry i
Block(i) == (N + Offset(i) + 1)..(N + Offset(i) + sampling_strategy_[i].num)

\* 0-based indices of the original rows labelled c
Pool(c) == {k \in 0..(N - 1) : y[k + 1] = c}

EmptyPoolEntries == {i \in DOMAIN sampling_strategy_ : Pool(sampling_strategy_[i].klass) = {}}

\* the scalar broadcast over the classes of the target mapping
Broadcast(v) == [c \in Keys(sampling_strategy_) |-> v]

\* what the caller observes of a call made with shrinkage configuration shr,
\* flag smoothed and a generator in state s0
Observed(shr, smoothed, s0) ==
    LET r == fit_resample(shr, smoothed, sampling_strategy_, X, y, Unset, NoIndices,
                          [global |-> FALSE, state |-> s0])
    IN  [status |-> r.status, X_resampled |-> r.X_resampled,
         y_resampled |-> r.y_resampled, sample_indices |-> r.sample_indices_.idx]

ObservedOfCall ==
    [status |-> call.status, X_resampled |-> call.X_resampled,
     y_resampled |-> call.y_resampled,
     sample_indices |-> IF Succeeded THEN sample_indices_.idx ELSE <<>>]

----------------------------------------------------------------------------
\* C1: after a successful call the generated rows are consecutive per-class
\* blocks behind the N original rows, in the order of the target mapping; the
\* block of (C, K) has exactly K rows, all labelled C, and every provenance
\* index of the block is the index of an original row labelled C.
C1_PerClassBlocks ==
    Succeeded =>
        /\ Len(call.y_resampled) = N + Total
        /\ Len(sample_indices_.idx) = N + Total
        /\ \A i \in DOMAIN sampling_strategy_ :
              /\ \A p \in Block(i) :
                    /\ call.y_resampled[p] = sampling_strategy_[i].klass
                    /\ sample_indices_.idx[p] \in Pool(sampling_strategy_[i].klass)
              /\ Cardinality({p \in (N + 1)..(N + Total) :
                                 call.y_resampled[p] = sampling_strategy_[i].klass})
                    = sampling_strategy_[i].num

C1_Witness ==
    /\ Succeeded
    /\ Len(sampling_strategy_) = 2
    /\ sampling_strategy_[1].num = 2
    /\ sampling_strategy_[2].num >= 1
    /\ sampling_strategy_[1].klass > sampling_strategy_[2].klass

\* C2: after a successful call on N rows the provenance, the resampled labels
\* and the resampled matrix all have N + sum(target counts) entries.
C2_OutputLengths ==
    Succeeded =>
        /\ Len(sample_indices_.idx) = N + Total
        /\ Len(call.y_resampled) = N + Total
        /\ Len(call.X_resampled.rows) = N + Total

C2_Witness ==
    /\ Succeeded
    /\ Total >= 3
    /\ Len(call.X_resampled.rows) = N + Total

\* C3: after a successful call, smoothed or not, the first N provenance entries
\* are 0..N-1 in order and the first N output rows and labels are the original
\* rows and labels.
C3_OriginalPrefix ==
    Succeeded =>
        \A i \in 1..N :
            /\ sample_indices_.idx[i] = i - 1
            /\ call.X_resampled.rows[i] = X.rows[i]
            /\ call.y_resampled[i] = y[i]

C3_Witness ==
    /\ Succeeded
    /\ call.smoothed
    /\ N >= 2
    /\ \E p \in (N + 1)..(N + Total) :
          call.X_resampled.rows[p] # X.rows[sample_indices_.idx[p] + 1]

\* C4: without smoothing every generated row is a copy of the original row its
\* provenance index names, and carries that row's label.
C4_PureDuplication ==
    (Succeeded /\ ~call.smoothed) =>
        \A p \in (N + 1)..Len(call.X_resampled.rows) :
            /\ call.X_resampled.rows[p] = X.rows[sample_indices_.idx[p] + 1]
            /\ call.y_resampled[p] = y[sample_indices_.idx[p] + 1]

C4_Witness ==
    /\ Succeeded
    /\ ~call.smoothed
    /\ \E p \in (N + 1)..Len(call.X_resampled.rows) :
          /\ sample_indices_.idx[p] >= 1
          /\ X.rows[sample_indices_.idx[p] + 1] # X.rows[1]

\* C5: with smoothing on, a scalar shrinkage s resolves to {C: s} over the
\* classes of the target mapping, and a dict that lacks a target class makes
\* the call fail, before anything is drawn, with an error naming exactly the
\* target classes the dict lacks; a dict that lacks none is no such error.
C5_ShrinkageResolution ==
    (Called /\ call.smoothed) =>
        /\ shrinkage.real =>
              /\ call.status # "IncompleteShrinkage"
              /\ shrinkage_ = Dict(Broadcast(shrinkage.value))
        /\ (~shrinkage.real /\ ~(Keys(sampling_strategy_) \subseteq DOMAIN shrinkage.map)) =>
              /\ call.status = "IncompleteShrinkage"
              /\ call.missing = Keys(sampling_strategy_) \ DOMAIN shrinkage.map
              /\ call.draws = 0
        /\ (~shrinkage.real /\ Keys(sampling_strategy_) \subseteq DOMAIN shrinkage.map) =>
              /\ call.status # "IncompleteShrinkage"
              /\ shrinkage_ = Dict(shrinkage.map)

C5_Witness ==
    /\ call.smoothed
    /\ call.status = "IncompleteShrinkage"
    /\ Len(sampling_strategy_) = 2
    /\ Cardinality(call.missing) = 1

\* C6: any target entry whose class labels no row, whatever its count (0
\* included), makes the call fail and return nothing.
C6_AnyEmptyPoolFails ==
    (Called /\ EmptyPoolEntries # {}) =>
        /\ call.status # "ok"
        /\ call.X_resampled = NoMatrix
        /\ call.y_resampled = <<>>

\* C7 as stated: a call that ends in a configuration error has drawn nothing,
\* returns nothing and leaves sample_indices_ and shrinkage_ as they were.
C7_ConfigErrorChangesNothing ==
    [][call'.status \in ConfigErrors =>
          /\ call'.draws = 0
          /\ np_random' = np_random
          /\ call'.X_resampled = NoMatrix
          /\ call'.y_resampled = <<>>
          /\ sample_indices_' = sample_indices_
          /\ shrinkage_' = shrinkage_]_vars

\* C7 amended: a call that ends in a configuration error has drawn nothing,
\* returns nothing and leaves sample_indices_ as it was; shrinkage_ is left as
\* it was by the incomplete-shrinkage error, and holds the resolved mapping
\* after the non-numeric error.
C7_ConfigErrorBeforeSampling ==
    [][call'.status \in ConfigErrors =>
          /\ call'.draws = 0
          /\ np_random' = np_random
          /\ call'.X_resampled = NoMatrix
          /\ call'.y_resampled = <<>>
          /\ sample_indices_' = sample_indices_
          /\ call'.status = "IncompleteShrinkage" => shrinkage_' = shrinkage_
          /\ call'.status = "NonNumeric" =>
                shrinkage_' = Dict(IF shrinkage.real
                                   THEN Broadcast(shrinkage.value)
                                   ELSE shrinkage.map)]_vars

C7_Witness ==
    /\ call.status = "NonNumeric"
    /\ call.before = "None"
    /\ shrinkage_.state = "dict"
    /\ sample_indices_.set
    /\ ~random_state.seeded

\* C8: with an int seed, a call repeated on the same sampler with the same
\* inputs returns what the call before it returned, and what a call returns
\* does not depend on the state of the global generator.
C8_Reproducible ==
    [][/\ (/\ random_state.seeded
           /\ Called
           /\ call.smoothed = smoothed_bootstrap
           /\ smoothed_bootstrap' = smoothed_bootstrap)
          => ObservedOfCall' = ObservedOfCall
       /\ (random_state.seeded /\ call' # call)
          => \A g \in RngStates :
                Observed(shrinkage, smoothed_bootstrap,
                         check_random_state(random_state, g).state) = ObservedOfCall']_vars

C8_Witness ==
    /\ random_state.seeded
    /\ Succeeded
    /\ call.smoothed
    /\ call.before = "dict"
    /\ call.draws >= 6

\* C9: in smoothed mode every row generated for a class whose shrinkage
\* factor is 0 equals the original row its provenance index names.
C9_ZeroShrinkageCopies ==
    (Succeeded /\ call.smoothed) =>
        \A i \in DOMAIN sampling_strategy_ :
            shrinkage_.map[sampling_strategy_[i].klass] = 0 =>
                \A p \in Block(i) :
                    call.X_resampled.rows[p] = X.rows[sample_indices_.idx[p] + 1]

C9_Witness ==
    /\ Succeeded
    /\ call.smoothed
    /\ \E i \in DOMAIN sampling_strategy_ :
          /\ shrinkage_.map[sampling_strategy_[i].klass] = 0
          /\ sampling_strategy_[i].num = 2
          /\ Cardinality(Pool(sampling_strategy_[i].klass)) >= 2

\* C10: after a call without smoothing shrinkage_ is None, no configuration
\* error was raised, the call succeeded unless it drew from an empty pool, and
\* what it returned is what it returns under every shrinkage configuration.
C10_ShrinkageIgnored ==
    (Called /\ ~call.smoothed) =>
        /\ shrinkage_ = None
        /\ call.status \notin ConfigErrors
        /\ (\A i \in EmptyPoolEntries : sampling_strategy_[i].num = 0) => Succeeded
        /\ \A s \in ShrinkageParams : Observed(s, FALSE, call.rng0) = ObservedOfCall

C10_Witness ==
    /\ Succeeded
    /\ ~call.smoothed
    /\ call.before = "dict"
    /\ X.kind = "object"
    /\ Total >= 1
    /\ ~shrinkage.real
    /\ shrinkage_ = None

====
